---- MODULE Spec2Model ----
(***************************************************************************)
(* Model of pyresample/bilinear/__init__.py: bilinear resampling of data   *)
(* from an irregular source grid.                                          *)
(*                                                                         *)
(* Arrays are modelled for ONE target point (one row of every per-target   *)
(* array).  Coordinates and data are small integers; every derived number  *)
(* is kept exactly, as an element (p + q*sqrt(d)) / r of the quadratic     *)
(* field the code's single square root generates, or as one of the IEEE    *)
(* specials nan, +inf, -inf.  Floating-point rounding is not modelled.    *)
(***************************************************************************)
EXTENDS Integers, Sequences, FiniteSets, TLC

(***************************************************************************)
(* Numbers                                                                 *)
(***************************************************************************)
\* F applied to the value v: a local variable of the code, assigned once
Let(v, F(_)) == F(v)

Abs(n) == IF n < 0 THEN -n ELSE n

Sgn(n) == IF n < 0 THEN -1 ELSE IF n > 0 THEN 1 ELSE 0

RECURSIVE Gcd(_, _)
Gcd(a, b) == IF b = 0 THEN Abs(a) ELSE Gcd(b, a % Abs(b))

\* Largest e with e*e <= n (n >= 0), by bisection on [lo, hi).
RECURSIVE IsqrtIn(_, _, _)
IsqrtIn(n, lo, hi) ==
    IF hi - lo <= 1 THEN lo
    ELSE LET mid == (lo + hi) \div 2
         IN  IF mid * mid <= n THEN IsqrtIn(n, mid, hi) ELSE IsqrtIn(n, lo, mid)

Isqrt(n) == IsqrtIn(n, 0, n + 1)

\* float('nan'), +inf, -inf
nan == [k |-> "nan"]

inf(sg) == [k |-> "inf", sg |-> sg]

IsNan(x) == x.k = "nan"

IsInf(x) == x.k = "inf"

IsNum(x) == x.k = "num"

\* (p + q*sqrt(d)) / r in lowest terms with r > 0; q = 0 carries d = 0.  d is
\* never a square: Sqrt folds a rational root into p.
Mk(p, q, r, d) ==
    IF q = 0 /\ r = 1 THEN [k |-> "num", p |-> p, q |-> 0, r |-> 1, d |-> 0]
    ELSE Let((IF r < 0 THEN -1 ELSE 1) * Gcd(Gcd(p, q), r), LAMBDA g :
             [k |-> "num", p |-> p \div g, q |-> q \div g, r |-> r \div g,
              d |-> IF q = 0 THEN 0 ELSE d])

Num(n) == Mk(n, 0, 1, 0)

Rat(n, m) == Mk(n, 0, m, 0)

\* The radicand two operands share (at most one square root is ever taken for
\* a target point, so two irrational operands have the same d).
Rad(x, y) == IF x.q # 0 THEN x.d ELSE y.d

\* sign of p - q*sqrt(d) for q >= 0, without squaring p or q
RECURSIVE CmpSqrt(_, _, _)
CmpSqrt(p, q, d) ==
    IF q = 0 THEN Sgn(p)
    ELSE IF p <= 0 THEN -1
    ELSE Let(Isqrt(d), LAMBDA e :
             IF p \div q > e THEN 1
             ELSE IF p \div q < e THEN -1
             ELSE -CmpSqrt(q * (d - e * e) - (p % q) * e, p % q, d))

\* sign of p + q*sqrt(d)
SurdSign(p, q, d) ==
    IF q = 0 THEN Sgn(p)
    ELSE IF q < 0 THEN CmpSqrt(p, -q, d)
    ELSE -CmpSqrt(-p, q, d)

Sign(x) == IF IsInf(x) THEN x.sg ELSE SurdSign(x.p, x.q, x.d)

IsInteger(x) == IsNum(x) /\ x.q = 0 /\ x.r = 1

Neg(x) ==
    IF IsNan(x) THEN nan
    ELSE IF IsInf(x) THEN inf(-x.sg)
    ELSE Mk(-x.p, -x.q, x.r, x.d)

\* IEEE addition
Add(x, y) ==
    IF IsInteger(x) /\ IsInteger(y) THEN Mk(x.p + y.p, 0, 1, 0)
    ELSE IF IsNan(x) \/ IsNan(y) THEN nan
    ELSE IF IsInf(x) /\ IsInf(y) THEN (IF x.sg = y.sg THEN x ELSE nan)
    ELSE IF IsInf(x) THEN x
    ELSE IF IsInf(y) THEN y
    ELSE Mk(x.p * y.r + y.p * x.r, x.q * y.r + y.q * x.r, x.r * y.r, Rad(x, y))

Sub(x, y) ==
    IF IsInteger(x) /\ IsInteger(y) THEN Mk(x.p - y.p, 0, 1, 0) ELSE Add(x, Neg(y))

\* IEEE multiplication
Mul(x, y) ==
    IF IsInteger(x) /\ IsInteger(y) THEN Mk(x.p * y.p, 0, 1, 0)
    ELSE IF IsNan(x) \/ IsNan(y) THEN nan
    ELSE IF IsInf(x) \/ IsInf(y)
         THEN (IF Sign(x) * Sign(y) = 0 THEN nan ELSE inf(Sign(x) * Sign(y)))
    ELSE Mk(x.p * y.p + x.q * y.q * Rad(x, y), x.p * y.q + x.q * y.p,
            x.r * y.r, Rad(x, y))

\* IEEE division: x/0 is +-inf, 0/0 is nan, nothing is raised
Div(x, y) ==
    IF IsNan(x) \/ IsNan(y) THEN nan
    ELSE IF IsInf(y) THEN (IF IsInf(x) THEN nan ELSE Num(0))
    ELSE IF IsInf(x) THEN inf(x.sg * (IF Sign(y) < 0 THEN -1 ELSE 1))
    ELSE IF Sign(y) = 0 THEN (IF Sign(x) = 0 THEN nan ELSE inf(Sign(x)))
    ELSE LET d == Rad(x, y)
             n == y.p * y.p - y.q * y.q * d
         IN  Mk(y.r * (x.p * y.p - x.q * y.q * d),
                y.r * (x.q * y.p - x.p * y.q), x.r * n, d)

\* np.sqrt of a rational: nan below zero (no exception)
Sqrt(x) ==
    IF IsNan(x) THEN nan
    ELSE IF IsInf(x) THEN (IF x.sg > 0 THEN x ELSE nan)
    ELSE IF Sign(x) < 0 THEN nan
    ELSE Let(Isqrt(x.p * x.r), LAMBDA e :
             IF e * e = x.p * x.r THEN Mk(e, 0, x.r, 0) ELSE Mk(0, 1, x.r, x.p * x.r))

\* Comparisons: every comparison with nan is False
Lt(x, y) ==
    IF IsInteger(x) /\ IsInteger(y) THEN x.p < y.p
    ELSE ~IsNan(x) /\ ~IsNan(y) /\ Let(Sub(x, y), LAMBDA df : ~IsNan(df) /\ Sign(df) < 0)

Gt(x, y) == Lt(y, x)

Eq(x, y) ==
    IF IsInteger(x) /\ IsInteger(y) THEN x.p = y.p
    ELSE ~IsNan(x) /\ ~IsNan(y)
         /\ Let(Sub(x, y), LAMBDA df : IF IsNan(df) THEN x = y ELSE Sign(df) = 0)

(***************************************************************************)
(* Points, and the pure functions of the module                            *)
(***************************************************************************)
Pt(x, y) == [x |-> x, y |-> y]

IPt(x, y) == Pt(Num(x), Num(y))

NanPt == Pt(nan, nan)

\* _mask_coordinates: a lon/lat pair outside the valid ranges becomes nan
_mask_coordinates(p) ==
    IF Lt(p.x, Num(-180)) \/ Gt(p.x, Num(180)) \/ Lt(p.y, Num(-90)) \/ Gt(p.y, Num(90))
    THEN NanPt
    ELSE p

\* Proj(out_area.proj4_string) for the geographic projection "+proj=longlat",
\* under which planar x/y are lon/lat in degrees
proj(p) == p

\* _solve_quadratic: the root of a x^2 + b x + c inside [min_val, max_val]
_solve_quadratic(a__, b__, c__, min_val, max_val) ==
    Let(Sub(Mul(b__, b__), Mul(Mul(Num(4), a__), c__)), LAMBDA discriminant :
    Let(Div(Add(Neg(b__), Sqrt(discriminant)), Mul(Num(2), a__)), LAMBDA x_1 :
    Let(Div(Sub(Neg(b__), Sqrt(discriminant)), Mul(Num(2), a__)), LAMBDA x_2 :
    Let(IF Lt(x_1, min_val) \/ Gt(x_1, max_val) THEN x_2 ELSE x_1, LAMBDA x__ :
        IF Lt(x__, min_val) \/ Gt(x__, max_val) THEN nan ELSE x__))))

\* _find_vert_parallels: (pt_3 - pt_1) x (pt_4 - pt_2) == 0.0
_find_vert_parallels(pt_1, pt_2, pt_3, pt_4) ==
    Eq(Sub(Mul(Sub(pt_3.x, pt_1.x), Sub(pt_4.y, pt_2.y)),
           Mul(Sub(pt_4.x, pt_2.x), Sub(pt_3.y, pt_1.y))), Num(0))

\* _find_horiz_parallels: (pt_2 - pt_1) x (pt_4 - pt_3) == 0.0
_find_horiz_parallels(pt_1, pt_2, pt_3, pt_4) ==
    Eq(Sub(Mul(Sub(pt_2.x, pt_1.x), Sub(pt_4.y, pt_3.y)),
           Mul(Sub(pt_4.x, pt_3.x), Sub(pt_2.y, pt_1.y))), Num(0))

\* the upper limit forgotten
OutOfUnitBelow(x) == Lt(x, Num(0))

\* (x < 0) | (x > 1)
OutOfUnit(x) == Lt(x, Num(0)) \/ Gt(x, Num(1))

\* _get_ts_irregular
_get_ts_irregular(pt_1, pt_2, pt_3, pt_4, out_y, out_x) ==
    LET x_21 == Sub(pt_2.x, pt_1.x)
        x_31 == Sub(pt_3.x, pt_1.x)
        x_42 == Sub(pt_4.x, pt_2.x)
        y_21 == Sub(pt_2.y, pt_1.y)
        y_31 == Sub(pt_3.y, pt_1.y)
        y_42 == Sub(pt_4.y, pt_2.y)
        a__ == Sub(Mul(x_31, y_42), Mul(y_31, x_42))
        b__ == Sub(Add(Sub(Add(Sub(Mul(out_y, Sub(x_42, x_31)),
                                   Mul(out_x, Sub(y_42, y_31))),
                               Mul(x_31, pt_2.y)),
                           Mul(y_31, pt_2.x)),
                       Mul(pt_1.x, y_42)),
                   Mul(pt_1.y, x_42))
        c__ == Sub(Add(Sub(Mul(out_y, x_21), Mul(out_x, y_21)),
                       Mul(pt_1.x, pt_2.y)),
                   Mul(pt_2.x, pt_1.y))
    IN  Let(_solve_quadratic(a__, b__, c__, Num(0), Num(1)), LAMBDA t__ :
        Let(Div(Sub(Sub(out_y, pt_1.y), Mul(y_31, t__)),
                Sub(Sub(Add(pt_2.y, Mul(y_42, t__)), pt_1.y), Mul(y_31, t__))),
            LAMBDA s__ :
                [t |-> t__, s |-> IF OutOfUnit(s__) THEN nan ELSE s__]))

\* _get_ts_uprights_parallel
_get_ts_uprights_parallel(pt_1, pt_2, pt_3, pt_4, out_y, out_x) ==
    LET x_21 == Sub(pt_2.x, pt_1.x)
        x_31 == Sub(pt_3.x, pt_1.x)
        x_43 == Sub(pt_4.x, pt_3.x)
        y_21 == Sub(pt_2.y, pt_1.y)
        y_31 == Sub(pt_3.y, pt_1.y)
        y_43 == Sub(pt_4.y, pt_3.y)
        a__ == Sub(Mul(x_21, y_43), Mul(y_21, x_43))
        b__ == Sub(Add(Sub(Add(Sub(Mul(out_y, Sub(x_43, x_21)),
                                   Mul(out_x, Sub(y_43, y_21))),
                               Mul(pt_1.x, y_43)),
                           Mul(pt_1.y, x_43)),
                       Mul(x_21, pt_3.y)),
                   Mul(y_21, pt_3.x))
        c__ == Sub(Sub(Add(Sub(Mul(out_y, x_31), Mul(out_x, y_31)),
                           Mul(pt_1.x, pt_3.y)),
                       pt_3.x),
                   pt_1.x)
    IN  Let(_solve_quadratic(a__, b__, c__, Num(0), Num(1)), LAMBDA s__ :
        Let(Div(Sub(Sub(out_y, pt_1.y), Mul(y_21, s__)),
                Sub(Sub(Add(pt_3.y, Mul(y_43, s__)), pt_1.y), Mul(y_21, s__))),
            LAMBDA t__ :
                [t |-> IF OutOfUnit(t__) THEN nan ELSE t__, s |-> s__]))

\* _get_ts_parallellogram
_get_ts_parallellogram(pt_1, pt_2, pt_3, out_y, out_x) ==
    LET x_21 == Sub(pt_2.x, pt_1.x)
        x_31 == Sub(pt_3.x, pt_1.x)
        y_21 == Sub(pt_2.y, pt_1.y)
        y_31 == Sub(pt_3.y, pt_1.y)
    IN  Let(Div(Sub(Mul(x_21, Sub(out_y, pt_1.y)), Mul(y_21, Sub(out_x, pt_1.x))),
                Sub(Mul(x_21, y_31), Mul(y_21, x_31))), LAMBDA t0 :
        Let(IF OutOfUnit(t0) THEN nan ELSE t0, LAMBDA t__ :
        Let(Div(Add(Sub(out_x, pt_1.x), Mul(x_31, t__)), x_21), LAMBDA s__ :
            [t |-> t__, s |-> IF OutOfUnit(s__) THEN nan ELSE s__])))

\* _get_ts for one target point.  ndim is the number of dimensions of the
\* out_x / out_y arrays: the two parallel branches index them as out_y[idxs, :],
\* which numpy refuses (IndexError) for a 1-d array; the irregular branch
\* indexes out_y[idxs], which works for both.
_get_ts(pt_1, pt_2, pt_3, pt_4, out_x, out_y, ndim) ==
    Let(_find_vert_parallels(pt_1, pt_2, pt_3, pt_4), LAMBDA vert_parallel :
    Let(_find_horiz_parallels(pt_1, pt_2, pt_3, pt_4), LAMBDA horiz_parallel :
        IF vert_parallel /\ ndim < 2
        THEN [exc |-> "IndexError", t |-> nan, s |-> nan]
        ELSE Let(IF vert_parallel /\ ~horiz_parallel
                   THEN _get_ts_uprights_parallel(pt_1, pt_2, pt_3, pt_4, out_y, out_x)
                 ELSE IF vert_parallel /\ horiz_parallel
                   THEN _get_ts_parallellogram(pt_1, pt_2, pt_3, out_y, out_x)
                 ELSE _get_ts_irregular(pt_1, pt_2, pt_3, pt_4, out_y, out_x),
                 LAMBDA ts :
             Let(OutOfUnit(ts.t) \/ OutOfUnit(ts.s), LAMBDA idxs :
                 [exc |-> "none",
                  t |-> IF idxs THEN nan ELSE ts.t,
                  s |-> IF idxs THEN nan ELSE ts.s]))))

(***************************************************************************)
(* Bounds and inputs                                                       *)
(***************************************************************************)
\* Source points lie on the integer lattice -MaxCoord-1 .. MaxCoord+1.
MaxCoord == 2

\* Data values are 0 .. DataMax.
DataMax == 2

\* The neighbours argument: candidate slots per target point.
neighbours == 5

\* Cut-off radii tried.
Radii == {3, 9}

\* A perfectly rectilinear source grid: two rows of three columns.
GridArea == << IPt(-1, 1), IPt(1, 1), IPt(3, 1), IPt(-1, -1), IPt(1, -1), IPt(3, -1) >>

\* A source geometry (in_area.get_lonlats(), raveled): six points.  Either the
\* grid, or a scattered one whose point 2 has a latitude outside [-90, 90] and
\* whose other points are one far point followed by one point in each quadrant
\* of the lattice.
InAreas ==
    { << IPt(fx, MaxCoord + 1), IPt(0, 91), IPt(x1, 1), IPt(x2, y2),
         IPt(x3, -1), IPt(x4, y4) >> :
        fx \in {-MaxCoord - 1, MaxCoord + 1}, x1 \in {-2, -1}, x3 \in {-2, -1},
        x2 \in 1..MaxCoord, y2 \in 1..MaxCoord,
        x4 \in {1, 2}, y4 \in {-2, -1} }
    \cup {GridArea}

\* A target geometry (out_area.get_lonlats()): one point.
OutAreas == { IPt(x, y) : x \in {-1, 0}, y \in {0, 1} }

\* A data layer: one value per source point (point 3 of the fourth layer is nan).
Layers ==
    { [i \in 1..6 |-> Num((i + b) % (DataMax + 1))] : b \in 0..DataMax }
    \cup { [i \in 1..6 |-> IF i = 3 THEN nan ELSE Num(i % (DataMax + 1))] }

(***************************************************************************)
(* kd_tree.get_neighbour_info                                              *)
(***************************************************************************)
ValidLonLat(p) == ~IsNan(_mask_coordinates(p).x)

\* valid_input_index: which source points have valid coordinates
ValidInputIndex(lonlats) == [i \in DOMAIN lonlats |-> ValidLonLat(lonlats[i])]

\* boolean-mask indexing a[mask]
RECURSIVE Compress(_, _)
Compress(a, mask) ==
    IF a = <<>> THEN <<>>
    ELSE IF mask[1]
         THEN <<a[1]>> \o Compress(Tail(a), Tail(mask))
         ELSE Compress(Tail(a), Tail(mask))

SeqMask(mask) == [i \in 1..Len(mask) |-> mask[i]]

\* squared planar distance of two points with integer coordinates
Dist2(p, q) ==
    (p.x.p - q.x.p) * (p.x.p - q.x.p) + (p.y.p - q.y.p) * (p.y.p - q.y.p)

\* every ordering of the index set S by increasing distance (ties either way)
RECURSIVE Orders(_, _, _)
Orders(S, pts, o) ==
    IF S = {} THEN {<<>>}
    ELSE LET near == { i \in S : \A j \in S : Dist2(pts[i], o) <= Dist2(pts[j], o) }
         IN  UNION { { <<i>> \o rest : rest \in Orders(S \ {i}, pts, o) } : i \in near }

\* The index rows get_neighbour_info may return for the target point: the
\* (0-based) indices into the valid source points of the k nearest ones
\* within the radius, nearest first, padded with the number of valid points.
NeighbourRows(lonlats, out, radius, k) ==
    Let(Compress(lonlats, SeqMask(ValidInputIndex(lonlats))), LAMBDA valid :
    Let(Len(valid), LAMBDA n :
        { [j \in 1..k |-> IF j <= Len(o) THEN o[j] - 1 ELSE n] :
            o \in Orders({ i \in 1..n : Dist2(valid[i], out) <= radius * radius },
                         valid, out) }))

(***************************************************************************)
(* Corner selection                                                        *)
(***************************************************************************)
\* the last True instead of the first
ArgMaxLast(valid) ==
    IF \E j \in DOMAIN valid : valid[j]
    THEN CHOOSE j \in DOMAIN valid : valid[j] /\ \A i \in DOMAIN valid : i > j => ~valid[i]
    ELSE 1

\* np.argmax of a boolean row: the first True, 0 when there is none (1-based here)
ArgMax(valid) ==
    IF \E j \in DOMAIN valid : valid[j]
    THEN CHOOSE j \in DOMAIN valid : valid[j] /\ \A i \in 1..(j - 1) : ~valid[i]
    ELSE 1

\* the coordinates of an absent corner left as they were indexed
_get_corner_unmasked(valid, in_x, in_y, idx_ref) ==
    [x   |-> in_x[ArgMax(valid)],
     y   |-> in_y[ArgMax(valid)],
     idx |-> idx_ref[ArgMax(valid)]]

\* _get_corner for one target point
_get_corner(valid, in_x, in_y, idx_ref) ==
    LET idxs    == ArgMax(valid)
        invalid == ~\E j \in DOMAIN valid : valid[j]
    IN  [x   |-> IF invalid THEN nan ELSE in_x[idxs],
         y   |-> IF invalid THEN nan ELSE in_y[idxs],
         idx |-> idx_ref[idxs]]

\* The four quadrant tests of _get_bounding_corners on x_diff = out_x - in_x,
\* y_diff = out_y - in_y
QuadrantValid(q, x_diff, y_diff) ==
    CASE q = 1 -> Gt(x_diff, Num(0)) /\ Lt(y_diff, Num(0))
      [] q = 2 -> Lt(x_diff, Num(0)) /\ Lt(y_diff, Num(0))
      [] q = 3 -> Gt(x_diff, Num(0)) /\ Gt(y_diff, Num(0))
      [] q = 4 -> Lt(x_diff, Num(0)) /\ Gt(y_diff, Num(0))

\* _get_bounding_corners for one target point: corner q of 1..4 is
\* upper left, upper right, lower left, lower right
_get_bounding_corners(in_x, in_y, out_x, out_y, idx_ref) ==
    [q \in 1..4 |->
        _get_corner([j \in DOMAIN in_x |->
                        QuadrantValid(q, Sub(out_x, in_x[j]), Sub(out_y, in_y[j]))],
                    in_x, in_y, idx_ref)]

\* _get_input_xy: coordinates of the candidate slots of one target point
\* (idx_ref is 0-based, as in the code)
_get_input_xy(lonlats, input_idxs, idx_ref) ==
    Let(Compress(lonlats, SeqMask(input_idxs)), LAMBDA in_lonlats :
    Let([i \in DOMAIN in_lonlats |-> _mask_coordinates(in_lonlats[i])], LAMBDA masked_ll :
        [j \in DOMAIN idx_ref |-> proj(masked_ll[idx_ref[j] + 1])]))

\* _get_output_xy
_get_output_xy(out_lonlat) == proj(_mask_coordinates(out_lonlat))

\* Number of True entries: input_idxs.sum()
RECURSIVE CountTrue(_)
CountTrue(mask) ==
    IF mask = <<>> THEN 0 ELSE (IF mask[1] THEN 1 ELSE 0) + CountTrue(Tail(mask))

\* get_bil_info after the neighbour search returned (input_idxs, idx_ref):
\* the reduction of the index reference, the corners and (t, s).
get_bil_info(lonlats, out_lonlat, input_idxs, nbr_ref) ==
    Let(CountTrue(SeqMask(input_idxs)), LAMBDA input_size :
    Let([j \in DOMAIN nbr_ref |-> nbr_ref[j] = input_size], LAMBDA index_mask :
    Let([j \in DOMAIN nbr_ref |-> IF index_mask[j] THEN 0 ELSE nbr_ref[j]], LAMBDA idx_ref :
    Let(_get_output_xy(out_lonlat), LAMBDA out :
    Let(_get_input_xy(lonlats, input_idxs, idx_ref), LAMBDA in_xy :
    Let(_get_bounding_corners([j \in DOMAIN in_xy |-> in_xy[j].x],
                              [j \in DOMAIN in_xy |-> in_xy[j].y],
                              out.x, out.y, idx_ref), LAMBDA corners :
    Let([q \in 1..4 |-> Pt(corners[q].x, corners[q].y)], LAMBDA pt :
    Let(_get_ts(pt[1], pt[2], pt[3], pt[4], out.x, out.y, 1), LAMBDA ts :
        [exc |-> ts.exc, t |-> ts.t, s |-> ts.s, pt |-> pt,
         in_xy |-> in_xy, index_mask |-> index_mask,
         idx_ref |-> [q \in 1..4 |-> corners[q].idx]]))))))))

(***************************************************************************)
(* Weight application                                                      *)
(***************************************************************************)
\* np.nanmin / np.nanmax of a sequence of numbers: nan when all are nan
NanMin(a) ==
    Let({ i \in DOMAIN a : ~IsNan(a[i]) }, LAMBDA ok :
        IF ok = {} THEN nan
        ELSE a[CHOOSE i \in ok : \A j \in ok : ~Lt(a[j], a[i])])

NanMax(a) ==
    Let({ i \in DOMAIN a : ~IsNan(a[i]) }, LAMBDA ok :
        IF ok = {} THEN nan
        ELSE a[CHOOSE i \in ok : \A j \in ok : ~Gt(a[j], a[i])])

\* p_1 (1-s)(1-t) + p_2 s (1-t) + p_3 (1-s) t + p_4 s t
Bilinear(p_1, p_2, p_3, p_4, t, s) ==
    Add(Add(Add(Mul(Mul(p_1, Sub(Num(1), s)), Sub(Num(1), t)),
                Mul(Mul(p_2, s), Sub(Num(1), t))),
            Mul(Mul(p_3, Sub(Num(1), s)), t)),
        Mul(Mul(p_4, s), t))

\* get_sample_from_bil_info for one target point and one data layer.
\* is_ma: data or t__/s__ is a numpy masked array, and so is their product
\* (a plain ndarray has no attribute mask); ts_mask: the mask bit of t__/s__.
\* The result is the masked-array element [v: value, m: mask bit].
get_sample_from_bil_info(layer, t, s, is_ma, ts_mask, input_idxs, idx_arr) ==
    Let(Compress(layer, SeqMask(input_idxs)), LAMBDA new_data :
    Let(Bilinear(new_data[idx_arr[1] + 1], new_data[idx_arr[2] + 1],
                 new_data[idx_arr[3] + 1], new_data[idx_arr[4] + 1], t, s),
        LAMBDA result_ :
        IF ~is_ma
        THEN [exc |-> "AttributeError", v |-> nan, m |-> FALSE]
        ELSE [exc |-> "none", v |-> result_,
              m |-> \/ Gt(result_, NanMax(new_data))
                    \/ Lt(result_, NanMin(new_data))
                    \/ IsNan(result_)
                    \/ ts_mask]))

\* The tail of resample_bilinear (lines 74-99) for one target point, given
\* what get_bil_info(masked=False) returned.  data is the sequence of the
\* channels' layers.  A masked array assigned into the plain result array
\* leaves its values and loses its mask.
ResampleTail(data, data_ma, t, s, input_idxs, idx_ref, fill_value) ==
    Let(Len(data), LAMBDA num_dsets :
    Let([i \in 1..num_dsets |->
            get_sample_from_bil_info(data[i], t, s, data_ma, FALSE,
                                     input_idxs, idx_ref)], LAMBDA smp :
    Let([i \in 1..num_dsets |-> smp[i].v], LAMBDA vals :
        IF num_dsets > 1
        THEN IF smp[1].exc # "none"
             THEN [exc |-> smp[1].exc, kind |-> "none", res |-> <<>>]
             ELSE IF fill_value.is_none
                  THEN [exc |-> "none", kind |-> "masked",
                        res |-> [i \in 1..num_dsets |->
                                    [v |-> vals[i], m |-> IsNan(vals[i])]]]
                  ELSE [exc |-> "none", kind |-> "ndarray",
                        res |-> [i \in 1..num_dsets |->
                                    [v |-> IF Eq(vals[i], nan) THEN Num(fill_value.v)
                                                               ELSE vals[i],
                                     m |-> FALSE]]]
        ELSE [exc |-> "UnboundLocalError", kind |-> "none", res |-> <<>>])))

(***************************************************************************)
(* State: the last call made, what it was given and what it left           *)
(***************************************************************************)
VARIABLES
    pc,          \* "idle", or the function that was called
    exc,         \* the exception it raised, "none" if it returned
    in_area,     \* source lon/lats
    out_area,    \* target lon/lat
    nbr,         \* idx_ref as returned by get_neighbour_info (one row)
    input_idxs,  \* valid_input_index
    in_xy,       \* coordinates of the candidate slots
    index_mask,  \* slots the neighbour search left empty
    pt,          \* the four corners pt_1 .. pt_4
    idx_ref,     \* the corners' indices (the returned index map)
    ndim,        \* dimensions of out_x / out_y handed to _get_ts
    t__,         \* vertical fractional distance
    s__,         \* horizontal fractional distance
    masked,      \* t__ / s__ are masked arrays
    data,        \* the data channels
    data_ma,     \* data is a masked array (with nothing masked)
    fill_value,  \* resample_bilinear's fill_value (None or a number)
    result,      \* one [v, m] per channel
    kind         \* type of the returned array: "ndarray" or "masked"

vars == <<pc, exc, in_area, out_area, nbr, input_idxs, in_xy, index_mask, pt,
          idx_ref, ndim, t__, s__, masked, data, data_ma, fill_value, result, kind>>

geo == <<in_area, out_area, nbr, input_idxs, in_xy, index_mask, pt, idx_ref, ndim>>

Init ==
    /\ pc = "idle"
    /\ exc = "none"
    /\ in_area = <<>>
    /\ out_area = NanPt
    /\ nbr = <<>>
    /\ input_idxs = <<>>
    /\ in_xy = <<>>
    /\ index_mask = <<>>
    /\ pt = <<>>
    /\ idx_ref = <<>>
    /\ ndim = 0
    /\ t__ = nan
    /\ s__ = nan
    /\ masked = FALSE
    /\ data = <<>>
    /\ data_ma = FALSE
    /\ fill_value = [is_none |-> TRUE, v |-> 0]
    /\ result = <<>>
    /\ kind = "none"

\* get_bil_info(in_area, out_area, radius, neighbours, masked=msk)
GetBilInfo ==
    /\ pc = "idle"
    /\ \E ia \in InAreas, oa \in OutAreas, radius \in Radii, msk \in BOOLEAN :
         \E row \in NeighbourRows(ia, oa, radius, neighbours) :
            \E bil \in {get_bil_info(ia, oa, ValidInputIndex(ia), row)} :
                /\ in_area' = ia
                /\ out_area' = oa
                /\ nbr' = row
                /\ input_idxs' = ValidInputIndex(ia)
                /\ in_xy' = bil.in_xy
                /\ index_mask' = bil.index_mask
                /\ pt' = bil.pt
                /\ idx_ref' = bil.idx_ref
                /\ ndim' = 1
                /\ t__' = bil.t
                /\ s__' = bil.s
                /\ masked' = msk
                /\ exc' = bil.exc
    /\ pc' = "get_bil_info"
    /\ UNCHANGED <<data, data_ma, fill_value, result, kind>>

\* get_sample_from_bil_info(layer, t__, s__, input_idxs, idx_ref) on what
\* get_bil_info returned
GetSampleFromBilInfo ==
    /\ pc = "get_bil_info"
    /\ exc = "none"
    /\ \E layer \in Layers, dma \in BOOLEAN :
         \E r \in {get_sample_from_bil_info(layer, t__, s__, dma \/ masked,
                                           masked /\ (IsNan(t__) \/ IsNan(s__)),
                                           input_idxs, idx_ref)} :
             /\ data' = <<layer>>
             /\ data_ma' = dma
             /\ exc' = r.exc
             /\ result' = IF r.exc = "none" THEN <<[v |-> r.v, m |-> r.m]>> ELSE <<>>
             /\ kind' = IF r.exc = "none" THEN "masked" ELSE "none"
    /\ pc' = "get_sample_from_bil_info"
    /\ UNCHANGED <<geo, t__, s__, masked, fill_value>>

\* Fractional distances a caller may hand over directly: valid or not.
TsValues == {nan} \cup { Rat(n, 2) : n \in -1..3 }

\* get_sample_from_bil_info on weights the caller supplies
GetSampleDirect ==
    /\ pc = "idle"
    /\ \E layer \in Layers, dma \in BOOLEAN, t \in TsValues, s \in TsValues,
          msk \in BOOLEAN, idx \in {<<1, 2, 3, 4>>, <<0, 0, 1, 1>>},
          ia \in {GridArea} :
         \E r \in {get_sample_from_bil_info(layer, t, s, dma \/ msk,
                                           msk /\ (IsNan(t) \/ IsNan(s)),
                                           ValidInputIndex(ia), idx)} :
             /\ data' = <<layer>>
             /\ data_ma' = dma
             /\ t__' = t
             /\ s__' = s
             /\ masked' = msk
             /\ input_idxs' = ValidInputIndex(ia)
             /\ idx_ref' = idx
             /\ exc' = r.exc
             /\ result' = IF r.exc = "none" THEN <<[v |-> r.v, m |-> r.m]>> ELSE <<>>
             /\ kind' = IF r.exc = "none" THEN "masked" ELSE "none"
    /\ pc' = "get_sample_from_bil_info"
    /\ UNCHANGED <<in_area, out_area, nbr, in_xy, index_mask, pt, ndim, fill_value>>

\* Corner points a caller may hand to _get_ts: the quadrant points of a source
\* geometry, any of them absent (nan).
CornerSets ==
    { [q \in 1..4 |-> IF q \in absent THEN NanPt ELSE ia[q + 2]] :
        ia \in InAreas, absent \in SUBSET (1..4) }

\* Target points a caller may hand to _get_ts: between the corners, or to the
\* right of or below all of them.
TsTargets == OutAreas \cup {IPt(MaxCoord + 1, 0), IPt(0, -MaxCoord - 1)}

\* _get_ts(pt_1, pt_2, pt_3, pt_4, out_x, out_y) called on its own, with
\* out_x / out_y of shape (1,) or (1, 1)
GetTs ==
    /\ pc = "idle"
    /\ \E c \in CornerSets, oa \in TsTargets, nd \in {1, 2} :
         \E ts \in {_get_ts(c[1], c[2], c[3], c[4], oa.x, oa.y, nd)} :
             /\ pt' = c
             /\ out_area' = oa
             /\ ndim' = nd
             /\ t__' = ts.t
             /\ s__' = ts.s
             /\ exc' = ts.exc
    /\ pc' = "_get_ts"
    /\ UNCHANGED <<in_area, nbr, input_idxs, in_xy, index_mask, idx_ref, masked,
                   data, data_ma, fill_value, result, kind>>

\* The channels handed to resample_bilinear: one layer, or a layer and its
\* reverse.
Channels ==
    { <<l>> : l \in Layers } \cup
    { <<l, [i \in 1..6 |-> l[7 - i]]>> : l \in Layers }

\* fill_value: None, or the default 0
FillValues == {[is_none |-> TRUE, v |-> 0], [is_none |-> FALSE, v |-> 0]}

\* resample_bilinear, lines 61-72: the call of get_bil_info(masked=False)
ResampleBilinearInfo ==
    /\ pc = "idle"
    /\ \E ia \in InAreas, oa \in OutAreas, radius \in Radii :
         \E row \in NeighbourRows(ia, oa, radius, neighbours) :
            \E bil \in {get_bil_info(ia, oa, ValidInputIndex(ia), row)} :
                /\ in_area' = ia
                /\ out_area' = oa
                /\ nbr' = row
                /\ input_idxs' = ValidInputIndex(ia)
                /\ in_xy' = bil.in_xy
                /\ index_mask' = bil.index_mask
                /\ pt' = bil.pt
                /\ idx_ref' = bil.idx_ref
                /\ ndim' = 1
                /\ t__' = bil.t
                /\ s__' = bil.s
                /\ masked' = FALSE
                /\ exc' = bil.exc
                /\ pc' = IF bil.exc = "none" THEN "resample_bilinear:74"
                                             ELSE "resample_bilinear"
    /\ UNCHANGED <<data, data_ma, fill_value, result, kind>>

\* resample_bilinear, lines 74-99, for the data and fill_value it was called with
ResampleBilinearData ==
    /\ pc = "resample_bilinear:74"
    /\ \E chans \in Channels, dma \in BOOLEAN, fv \in FillValues :
         \E r \in {ResampleTail(chans, dma, t__, s__, input_idxs, idx_ref, fv)} :
             /\ data' = chans
             /\ data_ma' = dma
             /\ fill_value' = fv
             /\ exc' = r.exc
             /\ result' = r.res
             /\ kind' = r.kind
    /\ pc' = "resample_bilinear"
    /\ UNCHANGED <<geo, t__, s__, masked>>

(***************************************************************************)
(* Properties                                                              *)
(***************************************************************************)
\* x is a number of the closed interval [0, 1]
InUnit(x) == ~IsNan(x) /\ Sign(Sub(x, Num(0))) >= 0 /\ Sign(Sub(Num(1), x)) >= 0

\* get_bil_info has computed the corners of the target point (it may still
\* have raised afterwards, inside _get_ts)
CornersSelected == pc \in {"get_bil_info", "resample_bilinear:74"}

\* The number of valid source points: the value that marks a missing slot
InputSize == CountTrue(SeqMask(input_idxs))

\* The quadrant conditions on an offset (x, y): upper left, upper right,
\* lower left, lower right
QuadrantCondition(q, x, y) ==
    CASE q = 1 -> Sign(x) > 0 /\ Sign(y) < 0
      [] q = 2 -> Sign(x) < 0 /\ Sign(y) < 0
      [] q = 3 -> Sign(x) > 0 /\ Sign(y) > 0
      [] q = 4 -> Sign(x) < 0 /\ Sign(y) > 0

\* Candidate slots whose offset target - candidate lies in quadrant q
SlotsBehind(q) ==
    { j \in DOMAIN in_xy :
        /\ ~IsNan(in_xy[j].x)
        /\ QuadrantCondition(q, Sub(out_area.x, in_xy[j].x), Sub(out_area.y, in_xy[j].y)) }

\* Candidate slots whose offset candidate - target lies in quadrant q
SlotsAhead(q) ==
    { j \in DOMAIN in_xy :
        /\ ~IsNan(in_xy[j].x)
        /\ QuadrantCondition(q, Sub(in_xy[j].x, out_area.x), Sub(in_xy[j].y, out_area.y)) }

\* The first slot of a non-empty set of slots
First(S) == CHOOSE j \in S : \A i \in S : j <= i

\* The index a slot refers to after the reduction of the index reference
SlotIndex(j) == IF nbr[j] = InputSize THEN 0 ELSE nbr[j]

\* C1: each of the t and s that _get_ts, and therefore get_bil_info, returns
\* is NaN or lies in the closed interval [0, 1].
TsInUnitInterval ==
    (pc \in {"_get_ts", "get_bil_info"} /\ exc = "none") =>
        /\ IsNan(t__) \/ InUnit(t__)
        /\ IsNan(s__) \/ InUnit(s__)

\* get_bil_info returned an irrational root as t, inside the interval
TsReturnedInside ==
    /\ pc = "get_bil_info"
    /\ exc = "none"
    /\ InUnit(t__)
    /\ InUnit(s__)
    /\ t__.q # 0

\* C6 as stated: with the offset candidate - target, every quadrant's corner
\* is the first candidate slot whose offset satisfies the quadrant condition.
CornerIsFirstAhead ==
    CornersSelected =>
        \A q \in 1..4 :
            SlotsAhead(q) # {} =>
                /\ pt[q] = in_xy[First(SlotsAhead(q))]
                /\ idx_ref[q] = SlotIndex(First(SlotsAhead(q)))

\* C6 amended: with the offset target - candidate, every quadrant's corner is
\* the first candidate slot whose offset satisfies the quadrant condition, and
\* no later one, whatever the other quadrants hold.
CornerIsFirstBehind ==
    CornersSelected =>
        \A q \in 1..4 :
            SlotsBehind(q) # {} =>
                /\ pt[q] = in_xy[First(SlotsBehind(q))]
                /\ idx_ref[q] = SlotIndex(First(SlotsBehind(q)))

\* A quadrant held two candidates and the corner is the earlier one
TwoCandidatesInQuadrant ==
    /\ CornersSelected
    /\ \E q \in 1..4 :
          /\ Cardinality(SlotsBehind(q)) > 1
          /\ pt[q] = in_xy[First(SlotsBehind(q))]
          /\ \E j \in SlotsBehind(q) : in_xy[j] # pt[q]

RealSlotsBehind(q) == { j \in SlotsBehind(q) : nbr[j] # InputSize }

\* The data of channel i at the four corners
CornerData(i) ==
    [q \in 1..4 |-> Compress(data[i], SeqMask(input_idxs))[idx_ref[q] + 1]]

\* p1 (1-s)(1-t) + p2 s (1-t) + p3 (1-s) t + p4 s t on the data of channel i
BilinearValue(i) ==
    Bilinear(CornerData(i)[1], CornerData(i)[2], CornerData(i)[3], CornerData(i)[4],
             t__, s__)

\* The bilinear value of channel i is NaN or outside the range of the corners' data
Rejected(i) ==
    \/ IsNan(BilinearValue(i))
    \/ Lt(BilinearValue(i), NanMin(CornerData(i)))
    \/ Gt(BilinearValue(i), NanMax(CornerData(i)))

\* C2: a target point one of whose quadrants holds no candidate gets NaN for
\* both t and s from get_bil_info, and a masked or NaN element from
\* get_sample_from_bil_info for every layer; nothing is raised.
MissingCornerPropagates ==
    (in_xy # <<>> /\ \E q \in 1..4 : RealSlotsBehind(q) = {}) =>
        /\ CornersSelected => (exc = "none" /\ IsNan(t__) /\ IsNan(s__))
        /\ pc = "get_sample_from_bil_info" =>
               /\ exc = "none"
               /\ \A i \in DOMAIN result : result[i].m \/ IsNan(result[i].v)

\* C3: whatever (t, s) and data layer get_sample_from_bil_info is given, plain
\* or masked, it returns, and an element is masked exactly when its bilinear
\* value is NaN or outside [min, max] of the data the corners refer to.
ExtrapolationGuard ==
    pc = "get_sample_from_bil_info" =>
        /\ exc = "none"
        /\ \A i \in DOMAIN result : result[i].m <=> Rejected(i)

\* C4: for a target point that coincides with one of its candidates,
\* get_bil_info resolves (t, s) to a pair of {0,1} x {0,1} that selects this
\* source point, and get_sample_from_bil_info returns exactly its data value.
CornerReproduced ==
    \A j \in DOMAIN in_xy :
        (nbr[j] # InputSize /\ in_xy[j] = out_area) =>
            /\ CornersSelected =>
                   /\ exc = "none"
                   /\ t__ \in {Num(0), Num(1)}
                   /\ s__ \in {Num(0), Num(1)}
                   /\ pt[1 + s__.p + 2 * t__.p] = out_area
            /\ pc = "get_sample_from_bil_info" =>
                   /\ exc = "none"
                   /\ \A i \in DOMAIN result :
                          /\ ~result[i].m
                          /\ result[i].v = Compress(data[i], SeqMask(input_idxs))[nbr[j] + 1]

\* The source points are the nodes of an axis-aligned rectangular grid
IsRectilinear(lonlats) ==
    /\ lonlats # <<>>
    /\ \A i \in DOMAIN lonlats : ValidLonLat(lonlats[i])
    /\ \A i, j \in DOMAIN lonlats :
          \E k \in DOMAIN lonlats : lonlats[k] = Pt(lonlats[i].x, lonlats[j].y)

\* Grid columns left and right of the target, grid rows above and below it
ColumnsLeft  == { in_area[i].x.p : i \in DOMAIN in_area } \cap (-100..(out_area.x.p - 1))

ColumnsRight == { in_area[i].x.p : i \in DOMAIN in_area } \cap ((out_area.x.p + 1)..100)

RowsAbove    == { in_area[i].y.p : i \in DOMAIN in_area } \cap ((out_area.y.p + 1)..100)

RowsBelow    == { in_area[i].y.p : i \in DOMAIN in_area } \cap (-100..(out_area.y.p - 1))

\* The target lies strictly inside a cell of the grid
InsideCell ==
    /\ ColumnsLeft # {} /\ ColumnsRight # {} /\ RowsAbove # {} /\ RowsBelow # {}
    /\ \A i \in DOMAIN in_area :
          in_area[i].x # out_area.x /\ in_area[i].y # out_area.y

Max(S) == CHOOSE x \in S : \A y \in S : y <= x

Min(S) == CHOOSE x \in S : \A y \in S : x <= y

\* C5: on a rectilinear source grid, for a target point strictly inside a grid
\* cell, get_bil_info returns without raising, with t and s the normalised
\* vertical and horizontal distances inside the enclosing cell.
AxisAlignedGroundTruth ==
    (CornersSelected /\ IsRectilinear(in_area) /\ InsideCell) =>
        /\ exc = "none"
        /\ t__ = Rat(out_area.y.p - Min(RowsAbove), Max(RowsBelow) - Min(RowsAbove))
        /\ s__ = Rat(out_area.x.p - Max(ColumnsLeft), Min(ColumnsRight) - Max(ColumnsLeft))

\* C8: resample_bilinear returns, for one channel as for several, a result in
\* which every undetermined pixel equals fill_value when one is given, and is
\* a masked element of a masked array when fill_value is None.
FillValueConvention ==
    pc = "resample_bilinear" =>
        /\ exc = "none"
        /\ \A i \in DOMAIN result :
              (IsNan(t__) \/ IsNan(s__) \/ Rejected(i)) =>
                  IF fill_value.is_none
                  THEN kind = "masked" /\ result[i].m
                  ELSE result[i].v = Num(fill_value.v)

\* C9: whenever _get_ts returns non-NaN t and s, the target's coordinates are
\* (1-s)(1-t) p1 + s(1-t) p2 + (1-s)t p3 + st p4 in both x and y, in every
\* shape class.
TsInvertBilinearMap ==
    (pc \in {"_get_ts", "get_bil_info"} /\ exc = "none"
        /\ ~IsNan(t__) /\ ~IsNan(s__)) =>
        /\ Eq(Bilinear(pt[1].x, pt[2].x, pt[3].x, pt[4].x, t__, s__), out_area.x)
        /\ Eq(Bilinear(pt[1].y, pt[2].y, pt[3].y, pt[4].y, t__, s__), out_area.y)

\* C10: a slot the neighbour search marked as missing is never given a real
\* source point's coordinates, and every corner selected is a candidate the
\* search returned for the target.
OnlyRealCandidates ==
    CornersSelected =>
        /\ \A j \in DOMAIN nbr : nbr[j] = InputSize => IsNan(in_xy[j].x)
        /\ \A q \in 1..4 :
              ~IsNan(pt[q].x) =>
                  \E j \in DOMAIN nbr :
                      nbr[j] # InputSize /\ in_xy[j] = pt[q] /\ idx_ref[q] = nbr[j]

Next ==
    \/ GetBilInfo
    \/ GetSampleFromBilInfo
    \/ GetSampleDirect
    \/ GetTs
    \/ ResampleBilinearInfo
    \/ ResampleBilinearData

Spec == Init /\ [][Next]_vars
====
